---------------------------- MODULE Spec2Model ----------------------------
(***************************************************************************)
(* Low-stock alert endpoint of src/main.py (get_low_stock_alerts) over the *)
(* relational store that setup_database creates.  Tables are sets of rows, *)
(* every cursor.execute is one atomic step of the request, and the order   *)
(* in which the store hands back the rows of a SELECT without ORDER BY is  *)
(* chosen by the store at each query.                                      *)
(***************************************************************************)
EXTENDS Integers, Sequences, FiniteSets, TLC

(***************************************************************************)
(* Bounds of the model.                                                    *)
(***************************************************************************)
MaxQty == 2
MaxThreshold == 3
MaxCalls == 2
MaxWrites == 1

(***************************************************************************)
(* Python float arithmetic (IEEE-754 binary64, round to nearest, ties to   *)
(* even) on the values the handler divides.  A positive double is m * 2^e  *)
(* with a 53-bit mantissa m, 2^52 <= m < 2^53, kept as three 20-bit limbs  *)
(* <<high, middle, low>>.  Integers handled are below 2^20.                *)
(***************************************************************************)
Limb == 2^20

\* Limbs after carrying; every x is non-negative.
BigCarry(x2, x1, x0) ==
    LET t1 == x1 + x0 \div Limb
    IN  <<x2 + t1 \div Limb, t1 % Limb, x0 % Limb>>

BigMulSmall(a, k) == BigCarry(a[1] * k, a[2] * k, a[3] * k)

BigAddSmall(a, k) == BigCarry(a[1], a[2], a[3] + k)

BigLess(a, b) ==
    \/ a[1] < b[1]
    \/ a[1] = b[1] /\ a[2] < b[2]
    \/ a[1] = b[1] /\ a[2] = b[2] /\ a[3] < b[3]

\* a - b for a >= b.
BigSub(a, b) ==
    LET borrow0 == IF a[3] < b[3] THEN 1 ELSE 0
        borrow1 == IF a[2] - borrow0 < b[2] THEN 1 ELSE 0
    IN  <<a[1] - b[1] - borrow1,
          a[2] - borrow0 - b[2] + borrow1 * Limb,
          a[3] - b[3] + borrow0 * Limb>>

\* floor(a / 2^s) for 0 <= s < 20.
BigShiftRight(a, s) ==
    <<a[1] \div 2^s,
      a[2] \div 2^s + (a[1] % 2^s) * 2^(20 - s),
      a[3] \div 2^s + (a[2] % 2^s) * 2^(20 - s)>>

\* The limb of n * 2^k that starts s = k - 20 * j bits above bit 0 of n.
LimbOfShifted(n, s) ==
    IF s >= 20 THEN 0
    ELSE IF s >= 0 THEN (n % 2^(20 - s)) * 2^s
    ELSE (n \div 2^(-s)) % Limb

\* float(n) for an integer 0 <= n < 2^20: exact, n shifted left until its top
\* bit is bit 52.
PyFloat(n) ==
    IF n = 0 THEN [zero |-> TRUE, m |-> <<0, 0, 0>>, e |-> 0]
    ELSE LET p == CHOOSE i \in 0..19 : 2^i <= n /\ n < 2^(i + 1)
             k == 52 - p
         IN  [zero |-> FALSE,
              m |-> <<LimbOfShifted(n, k - 40), LimbOfShifted(n, k - 20),
                      LimbOfShifted(n, k)>>,
              e |-> -k]

\* One step of long division by d in base 256: the next quotient digit and
\* the new remainder.  st.rem < d throughout, so the digit is below 256; it
\* lies between the two estimates taken from the high limbs.
DivStep(st, d) ==
    LET r256 == BigMulSmall(st.rem, 256)
        lo == r256[1] \div (d[1] + 1)
        hi == (r256[1] + 1) \div d[1]
        digit == CHOOSE q \in lo..hi :
                    /\ ~BigLess(r256, BigMulSmall(d, q))
                    /\ BigLess(r256, BigMulSmall(d, q + 1))
    IN  [rem |-> BigSub(r256, BigMulSmall(d, digit)),
         q |-> BigAddSmall(BigMulSmall(st.q, 256), digit)]

\* n steps of long division from st.
DivDigits(st, d, n) ==
    LET R[i \in 0..n] == IF i = 0 THEN st ELSE DivStep(R[i - 1], d)
    IN  R[n]

\* The quotient r.q, which carries s bits below the 53 of the mantissa, rounded
\* to nearest, ties to even; r.rem # 0 says more bits follow.
RoundQuotient(r, s, e) ==
    LET low == r.q[3] % 2^s
        half == 2^(s - 1)
        kept == BigShiftRight(r.q, s)
        up == \/ low > half
              \/ low = half /\ r.rem # <<0, 0, 0>>
              \/ low = half /\ r.rem = <<0, 0, 0>> /\ kept[3] % 2 = 1
        m == IF up THEN BigAddSmall(kept, 1) ELSE kept
    IN  IF m[1] = 2^13 THEN [zero |-> FALSE, m |-> <<2^12, 0, 0>>, e |-> e + 1]
        ELSE [zero |-> FALSE, m |-> m, e |-> e]

\* a / b on floats, b # 0: 56 quotient bits below the binary point by long
\* division of the mantissas, then one rounding.
PyTrueDiv(a, b) ==
    IF a.zero THEN a
    ELSE IF BigLess(a.m, b.m)
         THEN RoundQuotient(DivDigits([rem |-> a.m, q |-> <<0, 0, 0>>], b.m, 7),
                            3, a.e - b.e - 53)
         ELSE RoundQuotient(DivDigits([rem |-> BigSub(a.m, b.m), q |-> <<0, 0, 1>>],
                                      b.m, 7),
                            4, a.e - b.e - 52)

\* int(x) for a float 0 <= x < 2^20: truncation.
PyInt(x) ==
    IF x.zero \/ x.e < -52 THEN 0
    ELSE IF x.e <= -40 THEN x.m[1] \div 2^(-x.e - 40)
    ELSE x.m[1] * 2^(40 + x.e) + x.m[2] \div 2^(-x.e - 20)

(***************************************************************************)
(* The store.  Warehouses and Suppliers hold the rows setup_database       *)
(* inserts, and one warehouse of a second company; Products, Inventory,    *)
(* Sales and ProductSuppliers are the tables the requests are run on.      *)
(***************************************************************************)
VARIABLES Products, Inventory, Sales, ProductSuppliers, today,
          pc, calls, company_id, now, active_product_ids, low_stock_products,
          k, days_until_stockout, supplier_info, alerts, response, last,
          writes, snapshots

store_vars == <<Products, Inventory, Sales, ProductSuppliers>>
request_vars == <<pc, calls, company_id, now, active_product_ids,
                  low_stock_products, k, days_until_stockout, supplier_info,
                  alerts, response, last>>
vars == <<Products, Inventory, Sales, ProductSuppliers, today,
          pc, calls, company_id, now, active_product_ids, low_stock_products,
          k, days_until_stockout, supplier_info, alerts, response, last,
          writes, snapshots>>

CompanyIds == {1, 2}

Warehouses ==
    {[warehouse_id |-> 456, company_id |-> 1, name |-> "Main Warehouse"],
     [warehouse_id |-> 457, company_id |-> 1, name |-> "West Coast Hub"],
     [warehouse_id |-> 458, company_id |-> 2, name |-> "Partner Depot"]}

Suppliers ==
    {[supplier_id |-> 789, name |-> "Supplier Corp",
      contact_email |-> "orders@supplier.com"],
     [supplier_id |-> 790, name |-> "Component Masters",
      contact_email |-> "sales@components.com"]}

ProductRow(id, threshold) ==
    [product_id |-> id,
     sku |-> IF id = 123 THEN "WID-001" ELSE "GAD-002",
     name |-> IF id = 123 THEN "Widget A" ELSE "Gadget B",
     low_stock_threshold |-> threshold]

InventoryRow(p, w, q) == [product_id |-> p, warehouse_id |-> w, quantity |-> q]

SaleRow(id, p, w, q, d) ==
    [sale_id |-> id, product_id |-> p, warehouse_id |-> w, quantity_sold |-> q,
     sale_date |-> d]

LinkRow(p, s) == [product_id |-> p, supplier_id |-> s]

\* Dates are day numbers of the year 2025; ISO date strings compare as these do.
\* '2025-07-03'
thirty_days_ago_str == 184

(***************************************************************************)
(* SQL and Python helpers.                                                 *)
(***************************************************************************)
RECURSIVE SumQuantity(_)
SumQuantity(rows) ==
    IF rows = {} THEN 0
    ELSE LET r == CHOOSE x \in rows : TRUE
         IN  r.quantity + SumQuantity(rows \ {r})

RECURSIVE SumQuantitySold(_)
SumQuantitySold(rows) ==
    IF rows = {} THEN 0
    ELSE LET r == CHOOSE x \in rows : TRUE
         IN  r.quantity_sold + SumQuantitySold(rows \ {r})

\* fetchall() of a SELECT without ORDER BY: the rows, in an order the store picks.
FetchAll(rows) ==
    {seq \in [1..Cardinality(rows) -> rows] :
        \A i, j \in 1..Cardinality(rows) : seq[i] = seq[j] => i = j}

\* LIMIT 1 and fetchone() of a SELECT without ORDER BY: None (<<>>) or one row,
\* whichever the store hands back first.
FetchOne(rows) == IF rows = {} THEN {<<>>} ELSE {<<r>> : r \in rows}

\* min(rows, key=lambda x: x['quantity']): the first row of the smallest key.
PyMinByQuantity(rows) ==
    rows[CHOOSE i \in 1..Len(rows) :
            /\ \A j \in 1..Len(rows) : rows[i].quantity <= rows[j].quantity
            /\ \A j \in 1..(i - 1) : rows[j].quantity > rows[i].quantity]

CompanyWarehouseIds(c) == {w.warehouse_id : w \in {x \in Warehouses : x.company_id = c}}

(***************************************************************************)
(* The five queries of get_low_stock_alerts.                               *)
(***************************************************************************)
\* 1. SELECT DISTINCT s.product_id FROM Sales s JOIN Warehouses w ...
ActiveProductIds(sales, c) ==
    {s.product_id : s \in {x \in sales :
        /\ \E w \in Warehouses : x.warehouse_id = w.warehouse_id /\ w.company_id = c
        /\ x.sale_date >= thirty_days_ago_str}}

\* The Inventory rows of product p that join a warehouse of company c.
JoinedInventory(inventory, p, c) ==
    {i \in inventory :
        /\ i.product_id = p
        /\ \E w \in Warehouses : i.warehouse_id = w.warehouse_id /\ w.company_id = c}

LowStockRowsAnyCompany(products, inventory, ids, c) ==
    {[product_id |-> p.product_id, product_name |-> p.name, sku |-> p.sku,
      low_stock_threshold |-> p.low_stock_threshold,
      total_stock |-> SumQuantity({i \in inventory : i.product_id = p.product_id})] :
        p \in {x \in products :
                /\ x.product_id \in ids
                /\ JoinedInventory(inventory, x.product_id, c) # {}
                /\ SumQuantity({i \in inventory : i.product_id = x.product_id})
                       < x.low_stock_threshold}}

LowStockRowsAtOrBelow(products, inventory, ids, c) ==
    {[product_id |-> p.product_id, product_name |-> p.name, sku |-> p.sku,
      low_stock_threshold |-> p.low_stock_threshold,
      total_stock |-> SumQuantity(JoinedInventory(inventory, p.product_id, c))] :
        p \in {x \in products :
                /\ x.product_id \in ids
                /\ JoinedInventory(inventory, x.product_id, c) # {}
                /\ SumQuantity(JoinedInventory(inventory, x.product_id, c))
                       <= x.low_stock_threshold}}

\* 2. SELECT p.product_id, ..., SUM(i.quantity) AS total_stock FROM Products p
\*    JOIN Inventory i ... JOIN Warehouses w ... WHERE p.product_id IN (...) AND
\*    w.company_id = ? GROUP BY p.product_id HAVING total_stock < threshold.
\*    A product without a joined Inventory row forms no group.
LowStockRows(products, inventory, ids, c) ==
    {[product_id |-> p.product_id, product_name |-> p.name, sku |-> p.sku,
      low_stock_threshold |-> p.low_stock_threshold,
      total_stock |-> SumQuantity(JoinedInventory(inventory, p.product_id, c))] :
        p \in {x \in products :
                /\ x.product_id \in ids
                /\ JoinedInventory(inventory, x.product_id, c) # {}
                /\ SumQuantity(JoinedInventory(inventory, x.product_id, c))
                       < x.low_stock_threshold}}

\* 3. SELECT SUM(quantity_sold) FROM Sales WHERE product_id = ? AND sale_date >= ?
\*    followed by "or 0", which also turns the NULL of an empty sum into 0.
TotalSalesLast30Days(sales, p) ==
    SumQuantitySold({s \in sales :
        s.product_id = p /\ s.sale_date >= thirty_days_ago_str})

\* avg_daily_sales = total / 30.0; int(total_stock / avg_daily_sales) if it is > 0.
DaysUntilStockout(total_stock, total_sales_last_30_days) ==
    CHOOSE days \in
        {IF avg_daily_sales.zero THEN 0
         ELSE PyInt(PyTrueDiv(PyFloat(total_stock), avg_daily_sales)) :
            avg_daily_sales \in {PyTrueDiv(PyFloat(total_sales_last_30_days),
                                           PyFloat(30))}} : TRUE

\* 4. SELECT s.supplier_id, s.name, s.contact_email FROM Suppliers s JOIN
\*    ProductSuppliers ps ON ... WHERE ps.product_id = ?
SupplierRows(links, p) ==
    {s \in Suppliers :
        \E ps \in links : ps.supplier_id = s.supplier_id /\ ps.product_id = p}

WarehouseStockRowsWithZero(inventory, p, c) ==
    {[warehouse_id |-> w.warehouse_id, name |-> w.name, quantity |-> i.quantity] :
        <<i, w>> \in {x \in inventory \X Warehouses :
            /\ x[1].warehouse_id = x[2].warehouse_id
            /\ x[1].product_id = p
            /\ x[2].company_id = c}}

\* 5. SELECT w.warehouse_id, w.name, i.quantity FROM Inventory i JOIN Warehouses w
\*    ... WHERE i.product_id = ? AND w.company_id = ? AND i.quantity > 0
WarehouseStockRows(inventory, p, c) ==
    {[warehouse_id |-> w.warehouse_id, name |-> w.name, quantity |-> i.quantity] :
        <<i, w>> \in {x \in inventory \X Warehouses :
            /\ x[1].warehouse_id = x[2].warehouse_id
            /\ x[1].product_id = p
            /\ x[2].company_id = c
            /\ x[1].quantity > 0}}

\* JSON null is <<>>, a present value v is <<v>>.
SupplierJson(info) ==
    [id |-> IF info # <<>> THEN <<info[1].supplier_id>> ELSE <<>>,
     name |-> IF info # <<>> THEN info[1].name ELSE "N/A",
     contact_email |-> IF info # <<>> THEN info[1].contact_email ELSE "N/A"]

Alert(product, warehouse, days, info) ==
    [product_id |-> product.product_id,
     product_name |-> product.product_name,
     sku |-> product.sku,
     warehouse_id |-> warehouse.warehouse_id,
     warehouse_name |-> warehouse.name,
     current_stock |-> warehouse.quantity,
     threshold |-> product.low_stock_threshold,
     days_until_stockout |-> days,
     supplier |-> SupplierJson(info)]

NewAlertsPerWarehouse(product, rows, days, info) ==
    [i \in 1..Len(rows) |-> Alert(product, rows[i], days, info)]

\* The alerts one low-stock product adds: one, for the warehouse of the lowest
\* stock, or none when the query returned no row.
NewAlerts(product, rows, days, info) ==
    IF rows # <<>> THEN <<Alert(product, PyMinByQuantity(rows), days, info)>>
    ELSE <<>>

Jsonify(list) == [alerts |-> list, total_alerts |-> Len(list)]

(***************************************************************************)
(* Stores the requests are run on: the rows setup_database inserts, and    *)
(* bounded families around them.                                           *)
(***************************************************************************)
\* No row, or one row of a quantity 0..MaxQty, under one primary key.
OptQty == {{}} \cup {{q} : q \in 0..MaxQty}

BaseDate == thirty_days_ago_str + 30

BaseSales ==
    {SaleRow(1, 123, 456, 3, thirty_days_ago_str),
     SaleRow(2, 124, 457, 1, thirty_days_ago_str + 5),
     SaleRow(3, 123, 458, 2, thirty_days_ago_str + 1)}

BaseLinks == {LinkRow(123, 789), LinkRow(123, 790), LinkRow(124, 790)}

\* setup_database
SampleStore ==
    [Products |-> {ProductRow(123, 20), ProductRow(124, 50)},
     Inventory |-> {InventoryRow(123, 456, 5), InventoryRow(123, 457, 10),
                    InventoryRow(124, 456, 30), InventoryRow(124, 457, 40)},
     Sales |-> {SaleRow(1, 123, 456, 20, 204), SaleRow(2, 123, 457, 18, 209),
                SaleRow(3, 124, 456, 2, 169)},
     ProductSuppliers |-> {LinkRow(123, 789), LinkRow(124, 790)},
     today |-> BaseDate]

\* 23 units on hand and 23 units sold in the window.
RoundingStore ==
    [Products |-> {ProductRow(123, 24), ProductRow(124, 50)},
     Inventory |-> {InventoryRow(123, 456, 23)},
     Sales |-> {SaleRow(1, 123, 456, 23, 204)},
     ProductSuppliers |-> {LinkRow(123, 789), LinkRow(124, 790)},
     today |-> BaseDate]

StockStores ==
    {[Products |-> {ProductRow(123, t), ProductRow(124, 2)},
      Inventory |-> {InventoryRow(123, 456, q) : q \in a}
                    \cup {InventoryRow(123, 457, q) : q \in b}
                    \cup {InventoryRow(123, 458, q) : q \in f}
                    \cup {InventoryRow(124, 456, q) : q \in d},
      Sales |-> BaseSales,
      ProductSuppliers |-> BaseLinks,
      today |-> BaseDate] :
        a \in OptQty, b \in OptQty, f \in {{}, {1}}, d \in {{0}, {1}},
        t \in 1..MaxThreshold}

SalesStores ==
    {[Products |-> {ProductRow(123, 3), ProductRow(124, 2)},
      Inventory |-> {InventoryRow(123, 456, 1), InventoryRow(123, 457, 1),
                     InventoryRow(123, 458, 1), InventoryRow(124, 456, 1)},
      Sales |-> {SaleRow(1, 123, 456, q1, d1), SaleRow(3, 124, 456, 1, d1 + 1)}
                \cup {SaleRow(2, 123, 458, 1, d) : d \in d2},
      ProductSuppliers |-> BaseLinks,
      today |-> t] :
        q1 \in {0, MaxQty},
        d1 \in (thirty_days_ago_str - 1)..(thirty_days_ago_str + 1),
        d2 \in {{}, {thirty_days_ago_str - 1}, {thirty_days_ago_str}},
        t \in {BaseDate, BaseDate + 1}}

SupplierStores ==
    {[Products |-> {ProductRow(123, 3), ProductRow(124, 2)},
      Inventory |-> {InventoryRow(123, 456, 1), InventoryRow(123, 457, 1),
                     InventoryRow(124, 456, 1)},
      Sales |-> BaseSales,
      ProductSuppliers |-> links,
      today |-> BaseDate] : links \in SUBSET BaseLinks}

Stores == {SampleStore, RoundingStore} \cup StockStores \cup SalesStores
              \cup SupplierStores

WriterStores == {SampleStore} \cup SupplierStores

CurrentStore ==
    [Products |-> Products, Inventory |-> Inventory, Sales |-> Sales,
     ProductSuppliers |-> ProductSuppliers]

InitOn(stores) ==
    /\ \E st \in stores :
          /\ Products = st.Products
          /\ Inventory = st.Inventory
          /\ Sales = st.Sales
          /\ ProductSuppliers = st.ProductSuppliers
          /\ today = st.today
    /\ pc = "idle"
    /\ calls = 0
    /\ company_id = 0
    /\ now = 0
    /\ active_product_ids = {}
    /\ low_stock_products = <<>>
    /\ k = 0
    /\ days_until_stockout = 0
    /\ supplier_info = <<>>
    /\ alerts = <<>>
    /\ response = Jsonify(<<>>)
    /\ last = <<>>
    /\ writes = 0
    /\ snapshots = {}

Init == InitOn(Stores)

InitWriter == InitOn(WriterStores)

(***************************************************************************)
(* get_low_stock_alerts(company_id), one action per cursor.execute.  The   *)
(* request is served on the date today; last keeps the response of the     *)
(* call before when that call had the same arguments.                      *)
(***************************************************************************)
Request(c) ==
    /\ pc \in {"idle", "done"}
    /\ calls < MaxCalls
    /\ calls' = calls + 1
    /\ last' = IF pc = "done" /\ company_id = c /\ now = today
               THEN <<response>> ELSE <<>>
    /\ company_id' = c
    /\ now' = today
    /\ pc' = "active"
    /\ active_product_ids' = {}
    /\ low_stock_products' = <<>>
    /\ k' = 0
    /\ days_until_stockout' = 0
    /\ supplier_info' = <<>>
    /\ alerts' = <<>>
    /\ response' = Jsonify(<<>>)
    /\ snapshots' = {CurrentStore}
    /\ UNCHANGED <<store_vars, today, writes>>

QueryActive ==
    /\ pc = "active"
    /\ LET ids == ActiveProductIds(Sales, company_id)
       IN  /\ active_product_ids' = ids
           /\ IF ids = {}
              THEN pc' = "done" /\ response' = Jsonify(<<>>)
              ELSE pc' = "lowstock" /\ UNCHANGED response
    /\ UNCHANGED <<store_vars, today, calls, company_id, now, low_stock_products,
                   k, days_until_stockout, supplier_info, alerts, last, writes,
                   snapshots>>

QueryLowStock ==
    /\ pc = "lowstock"
    /\ \E rows \in FetchAll(LowStockRows(Products, Inventory, active_product_ids,
                                         company_id)) :
          /\ low_stock_products' = rows
          /\ alerts' = <<>>
          /\ IF rows = <<>>
             THEN pc' = "done" /\ k' = 0 /\ response' = Jsonify(<<>>)
             ELSE pc' = "sales" /\ k' = 1 /\ UNCHANGED response
    /\ UNCHANGED <<store_vars, today, calls, company_id, now, active_product_ids,
                   days_until_stockout, supplier_info, last, writes, snapshots>>

QuerySales ==
    /\ pc = "sales"
    /\ days_until_stockout' =
          DaysUntilStockout(low_stock_products[k].total_stock,
                            TotalSalesLast30Days(Sales, low_stock_products[k].product_id))
    /\ pc' = "supplier"
    /\ UNCHANGED <<store_vars, today, calls, company_id, now, active_product_ids,
                   low_stock_products, k, supplier_info, alerts, response, last,
                   writes, snapshots>>

QuerySupplier ==
    /\ pc = "supplier"
    /\ \E info \in FetchOne(SupplierRows(ProductSuppliers,
                                         low_stock_products[k].product_id)) :
          supplier_info' = info
    /\ pc' = "warehouses"
    /\ UNCHANGED <<store_vars, today, calls, company_id, now, active_product_ids,
                   low_stock_products, k, days_until_stockout, alerts, response,
                   last, writes, snapshots>>

QueryWarehouses ==
    /\ pc = "warehouses"
    /\ \E rows \in FetchAll(WarehouseStockRows(Inventory,
                                low_stock_products[k].product_id, company_id)) :
          LET list == alerts \o NewAlerts(low_stock_products[k], rows,
                                          days_until_stockout, supplier_info)
          IN  /\ alerts' = list
              /\ IF k = Len(low_stock_products)
                 THEN pc' = "done" /\ k' = 0 /\ response' = Jsonify(list)
                 ELSE pc' = "sales" /\ k' = k + 1 /\ UNCHANGED response
    /\ days_until_stockout' = 0
    /\ supplier_info' = <<>>
    /\ UNCHANGED <<store_vars, today, calls, company_id, now, active_product_ids,
                   low_stock_products, last, writes, snapshots>>

Handler == QueryActive \/ QueryLowStock \/ QuerySales \/ QuerySupplier \/ QueryWarehouses

Next == (\E c \in CompanyIds : Request(c)) \/ Handler

Spec == Init /\ [][Next]_vars

(***************************************************************************)
(* A writer on the shared connection db_conn that commits while a request  *)
(* is between two of its queries.                                          *)
(***************************************************************************)
WriteInventory(p, w, q) ==
    /\ pc \notin {"idle", "done"}
    /\ writes < MaxWrites
    /\ writes' = writes + 1
    /\ Inventory' = {i \in Inventory : ~(i.product_id = p /\ i.warehouse_id = w)}
                        \cup {InventoryRow(p, w, q)}
    /\ snapshots' = snapshots \cup {[CurrentStore EXCEPT !.Inventory = Inventory']}
    /\ UNCHANGED <<Products, Sales, ProductSuppliers, today, request_vars>>

WriteSale(p, w, q) ==
    /\ pc \notin {"idle", "done"}
    /\ writes < MaxWrites
    /\ writes' = writes + 1
    /\ Sales' = Sales \cup {SaleRow(Cardinality(Sales) + 10, p, w, q, today)}
    /\ snapshots' = snapshots \cup {[CurrentStore EXCEPT !.Sales = Sales']}
    /\ UNCHANGED <<Products, Inventory, ProductSuppliers, today, request_vars>>

Writer ==
    \/ \E p \in {123, 124}, w \in {456, 457, 458}, q \in 0..MaxQty :
          WriteInventory(p, w, q)
    \/ \E p \in {123, 124}, w \in {456, 458} : WriteSale(p, w, 1)

NextWriter == Next \/ Writer

SpecWriter == InitWriter /\ [][NextWriter]_vars

(***************************************************************************)
(* Properties.  The definitions below restate the queries on their own, so *)
(* that the handler is compared with the contract and not with itself.     *)
(***************************************************************************)
AlertIndex == 1..Len(alerts)

AlertedProducts == {alerts[i].product_id : i \in AlertIndex}

\* The company's Inventory rows of product p in a table.
Holdings(inventory, p, c) ==
    {i \in inventory : i.product_id = p /\ i.warehouse_id \in CompanyWarehouseIds(c)}

PositiveHoldings(inventory, p, c) == {i \in Holdings(inventory, p, c) : i.quantity > 0}

CompanyStock(inventory, p, c) == SumQuantity(Holdings(inventory, p, c))

WarehouseJson(i) ==
    [warehouse_id |-> i.warehouse_id,
     name |-> (CHOOSE w \in Warehouses : w.warehouse_id = i.warehouse_id).name,
     quantity |-> i.quantity]

\* The alerts a request of company c may return for a low-stock row, on a store.
PossibleAlerts(st, c, row) ==
    {Alert(row, WarehouseJson(i),
           DaysUntilStockout(row.total_stock,
                             TotalSalesLast30Days(st.Sales, row.product_id)),
           info) :
        i \in {x \in PositiveHoldings(st.Inventory, row.product_id, c) :
                  \A y \in PositiveHoldings(st.Inventory, row.product_id, c) :
                      x.quantity <= y.quantity},
        info \in FetchOne(SupplierRows(st.ProductSuppliers, row.product_id))}

\* resp is a response the handler may compute when every query of the request
\* of company c reads the one store st.
IsResponseOn(resp, st, c) ==
    LET rows == LowStockRows(st.Products, st.Inventory,
                             ActiveProductIds(st.Sales, c), c)
        n == Len(resp.alerts)
    IN  /\ resp.total_alerts = n
        /\ \A i, j \in 1..n :
              resp.alerts[i].product_id = resp.alerts[j].product_id => i = j
        /\ {resp.alerts[i].product_id : i \in 1..n}
              = {r.product_id : r \in {x \in rows :
                    PositiveHoldings(st.Inventory, x.product_id, c) # {}}}
        /\ \A i \in 1..n : \E r \in rows : resp.alerts[i] \in PossibleAlerts(st, c, r)

\* C1: with a writer committing during a request, the response is one that a
\* single store state (before or after a write) yields: it never mixes a
\* decision taken on one state with values read from another.
C1_SingleSnapshot ==
    pc = "done" => \E st \in snapshots : IsResponseOn(response, st, company_id)

\* C2: a product is alerted only if it has a sale at a warehouse of the company
\* with sale_date >= now - 30 days, the bound moving with now.
C2_TrailingWindow ==
    pc = "done" =>
        \A p \in AlertedProducts :
            \E s \in Sales :
                /\ s.product_id = p
                /\ s.warehouse_id \in CompanyWarehouseIds(company_id)
                /\ s.sale_date >= now - 30

\* C3: an active product with a strictly positive holding at the company is
\* alerted exactly when its stock summed over the company's warehouses is
\* strictly below its threshold.
C3_StrictThreshold ==
    pc = "done" =>
        \A p \in Products :
            (/\ p.product_id \in active_product_ids
             /\ PositiveHoldings(Inventory, p.product_id, company_id) # {})
            => (p.product_id \in AlertedProducts
                  <=> CompanyStock(Inventory, p.product_id, company_id)
                          < p.low_stock_threshold)

C3_Witness ==
    /\ pc = "done"
    /\ \E p, q \in Products :
          /\ {p.product_id, q.product_id} \subseteq active_product_ids
          /\ PositiveHoldings(Inventory, p.product_id, company_id) # {}
          /\ CompanyStock(Inventory, p.product_id, company_id) = p.low_stock_threshold
          /\ p.product_id \notin AlertedProducts
          /\ CompanyStock(Inventory, q.product_id, company_id)
                = q.low_stock_threshold - 1
          /\ q.product_id \in AlertedProducts

\* The tables that differ from inventory only in rows at warehouses of other
\* companies: there, product by product, no row or one quantity everywhere.
ForeignVariants(inventory, c) ==
    {{i \in inventory : i.warehouse_id \in CompanyWarehouseIds(c)}
        \cup {InventoryRow(123, w.warehouse_id, q) :
                 w \in {x \in Warehouses : x.company_id # c}, q \in a}
        \cup {InventoryRow(124, w.warehouse_id, q) :
                 w \in {x \in Warehouses : x.company_id # c}, q \in b} :
        a \in OptQty, b \in OptQty}

\* C4: Inventory at warehouses of other companies does not influence the result
\* for company c: on every table that differs only in such rows the same
\* products are flagged with the same totals, and the same warehouse and
\* current_stock can be reported.
C4_ForeignInventoryIgnored ==
    pc = "done" =>
        \A alt \in ForeignVariants(Inventory, company_id) :
            LET rows == LowStockRows(Products, alt, active_product_ids, company_id)
            IN  /\ {low_stock_products[i] : i \in 1..Len(low_stock_products)} = rows
                /\ AlertedProducts
                      = {r.product_id : r \in {x \in rows :
                            WarehouseStockRows(alt, x.product_id, company_id) # {}}}
                /\ \A i \in AlertIndex :
                      \E seq \in FetchAll(WarehouseStockRows(alt, alerts[i].product_id,
                                                             company_id)) :
                          PyMinByQuantity(seq)
                              = [warehouse_id |-> alerts[i].warehouse_id,
                                 name |-> alerts[i].warehouse_name,
                                 quantity |-> alerts[i].current_stock]

C4_Witness ==
    /\ pc = "done"
    /\ \E i \in AlertIndex :
          \E f \in Inventory :
              /\ f.product_id = alerts[i].product_id
              /\ f.warehouse_id \notin CompanyWarehouseIds(company_id)
              /\ CompanyStock(Inventory, f.product_id, company_id) + f.quantity
                    >= alerts[i].threshold

\* C5: days_until_stockout is floor(30 * total_stock / S), S the quantity sold of
\* the product in the window over all warehouses, and 0 when S = 0.
C5_ExactFloor ==
    pc = "done" =>
        \A i \in AlertIndex :
            LET S == SumQuantitySold({s \in Sales :
                        /\ s.product_id = alerts[i].product_id
                        /\ s.sale_date >= thirty_days_ago_str})
                T == CompanyStock(Inventory, alerts[i].product_id, company_id)
            IN  alerts[i].days_until_stockout
                    = IF S = 0 THEN 0 ELSE (30 * T) \div S

\* C6: the reported warehouse holds the minimum strictly positive quantity of
\* the product at the company, the lowest warehouse id among equals.
C6_LowestWarehouse ==
    pc = "done" =>
        \A i \in AlertIndex :
            \E h \in PositiveHoldings(Inventory, alerts[i].product_id, company_id) :
                /\ alerts[i].warehouse_id = h.warehouse_id
                /\ alerts[i].warehouse_name = WarehouseJson(h).name
                /\ alerts[i].current_stock = h.quantity
                /\ \A o \in PositiveHoldings(Inventory, alerts[i].product_id,
                                             company_id) :
                      \/ h.quantity < o.quantity
                      \/ h.quantity = o.quantity /\ h.warehouse_id <= o.warehouse_id

\* C7: the supplier of an alert is the linked supplier of the lowest id, or the
\* placeholder {id: null, name: "N/A", contact_email: "N/A"} without a link.
C7_LowestSupplier ==
    pc = "done" =>
        \A i \in AlertIndex :
            LET linked == {s \in Suppliers :
                              LinkRow(alerts[i].product_id, s.supplier_id)
                                  \in ProductSuppliers}
            IN  IF linked = {}
                THEN alerts[i].supplier
                        = [id |-> <<>>, name |-> "N/A", contact_email |-> "N/A"]
                ELSE \E s \in linked :
                        /\ \A o \in linked : s.supplier_id <= o.supplier_id
                        /\ alerts[i].supplier
                              = [id |-> <<s.supplier_id>>, name |-> s.name,
                                 contact_email |-> s.contact_email]

\* C8: a low-stock product of the request whose holdings at the company are all
\* exactly 0 gets no alert, and every alert has current_stock > 0.
C8_ZeroHoldingsOmitted ==
    /\ \A i \in AlertIndex : alerts[i].current_stock > 0
    /\ \A i \in 1..Len(response.alerts) : response.alerts[i].current_stock > 0
    /\ pc = "done" =>
          \A j \in 1..Len(low_stock_products) :
              (\A h \in Holdings(Inventory, low_stock_products[j].product_id,
                                 company_id) : h.quantity = 0)
              => low_stock_products[j].product_id \notin AlertedProducts

C8_Witness ==
    /\ pc = "done"
    /\ \E j \in 1..Len(low_stock_products) :
          /\ low_stock_products[j].product_id \in active_product_ids
          /\ Holdings(Inventory, low_stock_products[j].product_id, company_id) # {}
          /\ \A h \in Holdings(Inventory, low_stock_products[j].product_id,
                               company_id) : h.quantity = 0
          /\ low_stock_products[j].product_id \notin AlertedProducts

\* C9: a second call with the same company id and the same now over an
\* unchanged store returns the output of the first: same alerts, same field
\* values, same order.
C9_Idempotent == (pc = "done" /\ last # <<>>) => response = last[1]

\* C10: no two alerts of a response share a product_id.
C10_OneAlertPerProduct ==
    /\ \A i, j \in AlertIndex : alerts[i].product_id = alerts[j].product_id => i = j
    /\ \A i, j \in 1..Len(response.alerts) :
          response.alerts[i].product_id = response.alerts[j].product_id => i = j

C10_Witness ==
    /\ pc = "done"
    /\ \E i \in 1..Len(response.alerts) :
          Cardinality(PositiveHoldings(Inventory, response.alerts[i].product_id,
                                       company_id)) >= 2

=============================================================================
